---- MODULE Spec2Model ----
(***************************************************************************)
(* CrownedTrader: the automatic position tracker (signals/auto_tracking.py) *)
(* and the exit processor and manual position handlers (signals/views.py),  *)
(* modelled for one Position row and the trade plan of its Signal.          *)
(*                                                                          *)
(* Prices are integers (whole dollars); percentages are whole percents.     *)
(* On these values the Decimal/float conversions of the code are exact.     *)
(*                                                                          *)
(* A tracking pass and a manual exit request both read the row, wait on     *)
(* network I/O (quote fetch, Discord webhook) and write later: the model    *)
(* has one step per side of each wait.  The transaction.atomic() block of   *)
(* the pass (refresh_from_db, webhook, save) is one step: the configured    *)
(* database is SQLite, which lets no other writer commit inside it.         *)
(***************************************************************************)
EXTENDS Integers, FiniteSets, Sequences, TLC

VARIABLES
    db,        \* the Position row as stored
    takeoff,   \* signal.data["tp{n}_takeoff_per"], n -> value or None
    cfg,       \* the rest of the trade plan and the immutable Position columns
    trk,       \* per tracking-pass runner: position in the pass and its loaded pos
    req,       \* the manual request in flight: handler position and its loaded pos
    sentTp,    \* webhook deliveries of "Take Profit n HIT", per n
    sentSl,    \* webhook deliveries of "Stop Loss HIT"
    clock,     \* timezone.now(), one tick per stored closed_at
    passes,    \* tracking passes started
    requests,  \* manual requests started
    last,      \* the call of _apply_position_exit made by the step just taken, if any
    tick,      \* one tracking pass over several positions (specification PassSpec)
    sel,       \* one run of the option contract selector (specification SelSpec)
    run,       \* successive passes over one position and its quotes (specification RunSpec)
    fetch,     \* one call of get_option_chain_snapshots (specification FetchSpec)
    wrk        \* the background worker of a process (specification WorkerSpec)

vars == <<db, takeoff, cfg, trk, req, sentTp, sentSl, clock, passes, requests, last, tick, sel, run, fetch, wrk>>

----------------------------------------------------------------------------
(* Bounds of the model *)

MaxPasses == 2
MaxRequests == 1

----------------------------------------------------------------------------
(* Values *)

None == 0 - 1

\* takeoff_pct = 50.0 when the level has no tp{n}_takeoff_per
DefaultTakeoff == 50

\* Position.entry_price.  An unset entry_price (NULL) is read as 0 wherever the
\* modelled code computes with it, so 0 stands for both.
EntryPrices == {0, 100}
TpPlans == {<<120, 140>>}
SlPrices == {90}
TrailingTriggers == {"entry"}
TrailingPers == {15}
Quantities == {1}
Multipliers == {100}
Quotes == {None, 85, 125, 150}
ReducePercents == {None, 100, 150}
ExitPrices == {110}
Overrides == {None, 130}
Trackers == {"worker", "command"}

\* The owner's Discord channels at the moment of an exit: is the signal's own
\* channel active, is there an active default channel, is there any active channel.
ChannelConfigs ==
    {[signal |-> TRUE, default |-> TRUE, any |-> TRUE],
     [signal |-> FALSE, default |-> TRUE, any |-> TRUE],
     [signal |-> FALSE, default |-> FALSE, any |-> TRUE],
     [signal |-> FALSE, default |-> FALSE, any |-> FALSE]}

NoUrl == "none"

\* every exit takes a pass or a request, so tp_hit_level + 1 stays within Levels
Levels == 1..(MaxPasses + MaxRequests + 1)

----------------------------------------------------------------------------
(* Pure helpers *)

\* _to_float: a missing or blank value is 0.0
to_float(v) == IF v = None THEN 0 ELSE v

\* Python 3 round(): to nearest, ties to even; num/den with den > 0
PyRound(num, den) ==
    LET q == num \div den
        r == num % den
    IN  IF 2 * r < den THEN q
        ELSE IF 2 * r > den THEN q + 1
        ELSE IF q % 2 = 0 THEN q ELSE q + 1

Max(a, b) == IF a >= b THEN a ELSE b

\* data.get(f"tp{n}_price")
DataTpPrice(n) == IF n \in 1..Len(cfg.tp_prices) THEN cfg.tp_prices[n] ELSE None

\* data.get(f"tp{n}_takeoff_per")
DataTakeoff(n) == IF n \in Levels THEN takeoff[n] ELSE None

\* total_units = (pos.quantity or 1) * (pos.multiplier or 100)
DisplayUnits ==
    (IF cfg.quantity = 0 THEN 1 ELSE cfg.quantity)
        * (IF cfg.multiplier = 0 THEN 100 ELSE cfg.multiplier)

\* the webhook URL _apply_position_exit posts to, or NoUrl
WebhookUrl(ch) ==
    IF ch.signal THEN "signal"
    ELSE IF ch.default THEN "default"
    ELSE IF ch.any THEN "any"
    ELSE NoUrl

\* takeoff_pct of level n as _apply_position_exit reads it
TakeoffPct(n) == IF DataTakeoff(n) = None THEN DefaultTakeoff ELSE DataTakeoff(n)

----------------------------------------------------------------------------
(* _apply_position_exit *)

\* tp_exit_save with the takeoff taken of the whole size instead of the remaining size
tp_exit_save_of_total(row, pos, now) ==
    LET next_tp == pos.tp_hit_level + 1
        total_units == DisplayUnits
        closed_u == pos.closed_units
        add_units == PyRound(total_units * TakeoffPct(next_tp), 100)
        closed_new == closed_u + add_units
        tp_price == DataTpPrice(next_tp)
        entry == to_float(cfg.entry_price)
        credit == tp_price # None /\ entry # 0 /\ add_units > 0
        r1 == [row EXCEPT !.tp_hit_level = next_tp, !.closed_units = closed_new]
        r2 == IF credit
              THEN [r1 EXCEPT !.realized_pnl = pos.realized_pnl + (tp_price - entry) * add_units]
              ELSE r1
    IN  IF closed_new >= total_units
        THEN [r2 EXCEPT !.status = "closed",
                        !.closed_at = now,
                        !.exit_price = IF tp_price # None THEN tp_price ELSE cfg.entry_price]
        ELSE r2

\* the TP branch closing the position without stamping closed_at
tp_exit_save_without_closed_at(row, pos, now) ==
    LET next_tp == pos.tp_hit_level + 1
        takeoff_pct == TakeoffPct(next_tp)
        total_units == DisplayUnits
        closed_u == pos.closed_units
        remaining == Max(0, total_units - closed_u)
        add_units == PyRound(remaining * takeoff_pct, 100)
        closed_new == closed_u + add_units
        tp_price == DataTpPrice(next_tp)
        entry == to_float(cfg.entry_price)
        credit == tp_price # None /\ entry # 0 /\ add_units > 0
        r1 == [row EXCEPT !.tp_hit_level = next_tp, !.closed_units = closed_new]
        r2 == IF credit
              THEN [r1 EXCEPT !.realized_pnl = pos.realized_pnl + (tp_price - entry) * add_units]
              ELSE r1
    IN  IF closed_new >= total_units
        THEN [r2 EXCEPT !.status = "closed",
                        !.exit_price = IF tp_price # None THEN tp_price ELSE cfg.entry_price]
        ELSE r2

\* the TP branch: fields computed on pos, then pos.save(update_fields=...) on the row
tp_exit_save(row, pos, now) ==
    LET next_tp == pos.tp_hit_level + 1
        takeoff_pct == TakeoffPct(next_tp)
        total_units == DisplayUnits
        closed_u == pos.closed_units
        remaining == Max(0, total_units - closed_u)
        add_units == PyRound(remaining * takeoff_pct, 100)
        closed_new == closed_u + add_units
        tp_price == DataTpPrice(next_tp)
        entry == to_float(cfg.entry_price)
        credit == tp_price # None /\ entry # 0 /\ add_units > 0
        r1 == [row EXCEPT !.tp_hit_level = next_tp, !.closed_units = closed_new]
        r2 == IF credit
              THEN [r1 EXCEPT !.realized_pnl = pos.realized_pnl + (tp_price - entry) * add_units]
              ELSE r1
    IN  IF closed_new >= total_units
        THEN [r2 EXCEPT !.status = "closed",
                        !.closed_at = now,
                        !.exit_price = IF tp_price # None THEN tp_price ELSE cfg.entry_price]
        ELSE r2

\* sl_exit_save recording the caller's observed price, when given, as exit_price
sl_exit_save_observed(row, pos, current_price, now) ==
    [row EXCEPT !.sl_hit = TRUE,
                !.status = "closed",
                !.exit_price = IF current_price # None THEN current_price ELSE cfg.entry_price,
                !.closed_at = now]

\* the SL branch; current_price (the caller's observed price) goes to the embed only
sl_exit_save(row, pos, current_price, now) ==
    [row EXCEPT !.sl_hit = TRUE,
                !.status = "closed",
                !.exit_price = cfg.entry_price,
                !.closed_at = now]

ExitSave(row, pos, kind, current_price, now) ==
    IF kind = "tp" THEN tp_exit_save(row, pos, now)
    ELSE sl_exit_save(row, pos, current_price, now)

\* apply_position_exit saving the row before it looks at the webhook's answer
apply_position_exit_save_first(row, pos, kind, current_price, url, send_ok, now) ==
    LET failed == url # NoUrl /\ ~send_ok
    IN  [ok |-> ~failed,
         delivered |-> IF url # NoUrl /\ send_ok THEN 1 ELSE 0,
         row |-> ExitSave(row, pos, kind, current_price, now)]

\* result of one call: returned value, webhook deliveries, and the row afterwards
apply_position_exit(row, pos, kind, current_price, url, send_ok, now) ==
    LET failed == url # NoUrl /\ ~send_ok
    IN  [ok |-> ~failed,
         delivered |-> IF url # NoUrl /\ send_ok THEN 1 ELSE 0,
         row |-> IF failed THEN row ELSE ExitSave(row, pos, kind, current_price, now)]

\* bookkeeping of a call
CallRecord(caller, pos, kind, url, send_ok, expected, r, pre, now) ==
    [caller |-> caller,
     kind |-> kind,
     send_failed |-> (url # NoUrl /\ ~send_ok),
     level |-> pos.tp_hit_level + 1,
     expected_tp |-> expected.tp_hit_level,
     expected_sl |-> expected.sl_hit,
     takeoff_raw |-> DataTakeoff(pos.tp_hit_level + 1),
     ok |-> r.ok,
     delivered |-> r.delivered,
     pos |-> pos,
     pre |-> pre,
     post |-> r.row,
     now |-> now]

\* the clock after a step that took the row from `before` to `after`
Tick(before, after) == IF after.closed_at # before.closed_at THEN clock + 1 ELSE clock

Deliver(kind, level, n) ==
    /\ sentTp' = IF kind = "tp" THEN [sentTp EXCEPT ![level] = @ + n] ELSE sentTp
    /\ sentSl' = IF kind = "sl" THEN sentSl + n ELSE sentSl

----------------------------------------------------------------------------
(* Initial state: a position as the dashboard creates it *)

NewRow(mode) ==
    [status |-> "open", mode |-> mode, tp_hit_level |-> 0, sl_hit |-> FALSE,
     closed_units |-> 0, realized_pnl |-> 0, highest_price |-> None,
     exit_price |-> None, closed_at |-> None]

\* takeoffs a posted signal carries: none, or the plan's 50 .. 50 100
PlanTakeoffs(n) ==
    {[l \in Levels |-> None],
     [l \in Levels |-> IF l < n THEN 50 ELSE IF l = n THEN 100 ELSE None]}

IdleTracker == [pc |-> "idle", pos |-> NewRow("auto"), dry_run |-> FALSE]
IdleRequest == [pc |-> "idle", pos |-> NewRow("auto")]

\* the other specifications are not running
NoTick == [pc |-> "off"]
NoSel == [pc |-> "off"]
NoRun == [pc |-> "off"]
NoFetch == [pc |-> "off"]
NoWorker == [pc |-> "off"]

NoCall ==
    [caller |-> "none", kind |-> "tp", send_failed |-> FALSE, level |-> 0, expected_tp |-> 0, expected_sl |-> FALSE,
     takeoff_raw |-> None, ok |-> FALSE, delivered |-> 0,
     pos |-> NewRow("auto"), pre |-> NewRow("auto"), post |-> NewRow("auto"), now |-> 0]

Init ==
    /\ \E mode \in {"auto", "manual"} : db = NewRow(mode)
    /\ \E e \in EntryPrices, tps \in TpPlans, sl \in SlPrices,
          trig \in TrailingTriggers, per \in TrailingPers,
          qty \in Quantities, mult \in Multipliers :
          /\ cfg = [entry_price |-> e, tp_prices |-> tps, sl_price |-> sl,
                    trailing_stop_trigger |-> trig, trailing_stop_per |-> per,
                    quantity |-> qty, multiplier |-> mult]
          /\ takeoff \in PlanTakeoffs(Len(tps))
    /\ trk = [t \in Trackers |-> IdleTracker]
    /\ req = IdleRequest
    /\ sentTp = [l \in Levels |-> 0]
    /\ sentSl = 0
    /\ clock = 1
    /\ passes = 0
    /\ requests = 0
    /\ last = NoCall
    /\ tick = NoTick
    /\ sel = NoSel
    /\ run = NoRun
    /\ fetch = NoFetch
    /\ wrk = NoWorker

----------------------------------------------------------------------------
(* run_auto_tracking_check *)

\* the trailing stop is configured and its trigger condition is met
TrailingStopActive(pos) ==
    /\ cfg.trailing_stop_trigger # ""
    /\ cfg.trailing_stop_trigger # "none"
    /\ cfg.trailing_stop_per > 0
    /\ \/ cfg.trailing_stop_trigger = "entry"
       \/ cfg.trailing_stop_trigger = "tp1" /\ pos.tp_hit_level >= 1

\* the pass starts: the queryset of open auto positions is read
run_auto_tracking_load(t) ==
    /\ trk[t].pc = "idle"
    /\ passes < MaxPasses
    /\ passes' = passes + 1
    /\ trk' = IF db.status = "open" /\ db.mode = "auto"
              THEN [trk EXCEPT ![t] = [pc |-> "quote", pos |-> db, dry_run |-> FALSE]]
              ELSE trk
    /\ UNCHANGED <<db, takeoff, cfg, req, sentTp, sentSl, clock, requests>>
    /\ last' = NoCall
    /\ UNCHANGED <<tick, sel, run, fetch, wrk>>

\* ExitChoice comparing the next TP level before the static stop
ExitChoice_tp_first(pos, q, highest) ==
    LET sl_price == to_float(cfg.sl_price)
        next_tp_price == to_float(DataTpPrice(pos.tp_hit_level + 1))
    IN  IF q = None THEN "none"
        ELSE IF TrailingStopActive(pos)
                /\ q * 100 <= highest * (100 - cfg.trailing_stop_per) THEN "sl"
        ELSE IF next_tp_price > 0 /\ q >= next_tp_price THEN "tp"
        ELSE IF sl_price > 0 /\ q <= sl_price THEN "sl"
        ELSE "none"

\* ExitChoice reading a missing quote as the price 0
ExitChoice_no_quote_as_zero(pos, q, highest) ==
    LET sl_price == to_float(cfg.sl_price)
        next_tp_price == to_float(DataTpPrice(pos.tp_hit_level + 1))
        p == to_float(q)
    IN  IF TrailingStopActive(pos)
           /\ p * 100 <= highest * (100 - cfg.trailing_stop_per) THEN "sl"
        ELSE IF sl_price > 0 /\ p <= sl_price THEN "sl"
        ELSE IF next_tp_price > 0 /\ p >= next_tp_price THEN "tp"
        ELSE "none"

\* which exit the loop body chooses for quote q on the loaded pos
ExitChoice(pos, q, highest) ==
    LET sl_price == to_float(cfg.sl_price)
        next_tp_price == to_float(DataTpPrice(pos.tp_hit_level + 1))
    IN  IF q = None THEN "none"
        ELSE IF TrailingStopActive(pos)
                /\ q * 100 <= highest * (100 - cfg.trailing_stop_per) THEN "sl"
        ELSE IF sl_price > 0 /\ q <= sl_price THEN "sl"
        ELSE IF next_tp_price > 0 /\ q >= next_tp_price THEN "tp"
        ELSE "none"

\* the loop body for the position, from the quote's arrival to the end of the
\* atomic block
run_auto_tracking_position(t) ==
    /\ trk[t].pc = "quote"
    /\ \E q \in Quotes :
        LET pos == trk[t].pos
            dry == trk[t].dry_run
            active == q # None /\ TrailingStopActive(pos)
            highest0 == IF pos.highest_price # None THEN pos.highest_price ELSE q
            new_peak == active /\ q > highest0
            highest == IF new_peak THEN q ELSE highest0
            \* pos.save(update_fields=["highest_price"])
            db1 == IF new_peak /\ ~dry THEN [db EXCEPT !.highest_price = highest] ELSE db
            kind == ExitChoice(pos, q, highest)
            \* refresh_from_db, then the status check
            fires == kind # "none" /\ ~dry /\ db1.status = "open"
        IN  IF fires
            THEN \E ch \in ChannelConfigs, send_ok \in BOOLEAN :
                 LET url == WebhookUrl(ch)
                     r == apply_position_exit(db1, db1, kind, None, url, send_ok, clock)
                 IN  /\ db' = r.row
                     /\ Deliver(kind, db1.tp_hit_level + 1, r.delivered)
                     /\ last' = CallRecord("tracker", db1, kind, url, send_ok,
                                            pos, r, db1, clock)
                     /\ clock' = Tick(db1, r.row)
            ELSE /\ db' = db1
                 /\ last' = NoCall
                 /\ UNCHANGED <<sentTp, sentSl, clock>>
    /\ trk' = [trk EXCEPT ![t] = IdleTracker]
    /\ UNCHANGED <<takeoff, cfg, req, passes, requests, tick, sel, run, fetch, wrk>>

----------------------------------------------------------------------------
(* Manual handlers *)

\* post_position_update, exit branch, up to the webhook call.  The payload's kind and
\* current_price have no effect before the call returns and are drawn there.
post_position_update_load ==
    /\ req.pc = "idle"
    /\ requests < MaxRequests
    /\ requests' = requests + 1
    /\ \E partial \in BOOLEAN, reduce_percent \in ReducePercents :
        /\ takeoff' = IF partial /\ reduce_percent # None
                      THEN [takeoff EXCEPT ![db.tp_hit_level + 1] = reduce_percent]
                      ELSE takeoff
        /\ req' = [pc |-> "send", pos |-> db]
    /\ UNCHANGED <<db, cfg, trk, sentTp, sentSl, clock, passes>>
    /\ last' = NoCall
    /\ UNCHANGED <<tick, sel, run, fetch, wrk>>

\* post_position_update, exit branch, from the webhook's answer to the response
post_position_update_exit ==
    /\ req.pc = "send"
    /\ \E kind \in {"tp", "sl"}, current_price \in Overrides,
          ch \in ChannelConfigs, send_ok \in BOOLEAN :
        LET url == WebhookUrl(ch)
            r == apply_position_exit(db, req.pos, kind, current_price, url, send_ok, clock)
        IN  /\ db' = r.row
            /\ Deliver(kind, req.pos.tp_hit_level + 1, r.delivered)
            /\ last' = CallRecord("manual", req.pos, kind, url, send_ok, req.pos, r, db, clock)
            /\ clock' = Tick(db, r.row)
    /\ req' = IdleRequest
    /\ UNCHANGED <<takeoff, cfg, trk, passes, requests, tick, sel, run, fetch, wrk>>

\* post_position_update with update_parameters: stores reduce_percent for the next level
post_position_update_parameters ==
    /\ req.pc = "idle"
    /\ requests < MaxRequests
    /\ requests' = requests + 1
    /\ \E reduce_percent \in ReducePercents \ {None} :
          takeoff' = [takeoff EXCEPT ![db.tp_hit_level + 1] = reduce_percent]
    /\ UNCHANGED <<db, cfg, trk, req, sentTp, sentSl, clock, passes>>
    /\ last' = NoCall
    /\ UNCHANGED <<tick, sel, run, fetch, wrk>>

\* close_position with a positive exit_price
close_position ==
    /\ req.pc = "idle"
    /\ requests < MaxRequests
    /\ requests' = requests + 1
    /\ \E exit_price \in ExitPrices :
          db' = [db EXCEPT !.status = "closed", !.exit_price = exit_price, !.closed_at = clock]
    /\ clock' = clock + 1
    /\ UNCHANGED <<takeoff, cfg, trk, req, sentTp, sentSl, passes>>
    /\ last' = NoCall
    /\ UNCHANGED <<tick, sel, run, fetch, wrk>>

\* set_position_mode: the row is read ...
set_position_mode_load ==
    /\ req.pc = "idle"
    /\ requests < MaxRequests
    /\ requests' = requests + 1
    /\ req' = [pc |-> "mode", pos |-> db]
    /\ UNCHANGED <<db, takeoff, cfg, trk, sentTp, sentSl, clock, passes>>
    /\ last' = NoCall
    /\ UNCHANGED <<tick, sel, run, fetch, wrk>>

\* ... and saved with update_fields mode, tp_hit_level, sl_hit
set_position_mode_save ==
    /\ req.pc = "mode"
    /\ db' = [db EXCEPT !.mode = "manual",
                        !.tp_hit_level = req.pos.tp_hit_level,
                        !.sl_hit = req.pos.sl_hit]
    /\ req' = IdleRequest
    /\ UNCHANGED <<takeoff, cfg, trk, sentTp, sentSl, clock, passes, requests>>
    /\ last' = NoCall
    /\ UNCHANGED <<tick, sel, run, fetch, wrk>>

----------------------------------------------------------------------------

Next ==
    \/ \E t \in Trackers : run_auto_tracking_load(t)
    \/ \E t \in Trackers : run_auto_tracking_position(t)
    \/ post_position_update_load
    \/ post_position_update_exit
    \/ post_position_update_parameters
    \/ close_position
    \/ set_position_mode_load
    \/ set_position_mode_save

Spec == Init /\ [][Next]_vars

----------------------------------------------------------------------------
(* Properties *)

Called == last.caller # "none"

\* every stored takeoff percentage lies in 0..100
TakeoffsInRange ==
    \A n \in Levels : takeoff[n] = None \/ (0 <= takeoff[n] /\ takeoff[n] <= 100)

\* C1: with all takeoff percentages in 0..100, no step of a tracking pass or of a manual
\* exit request (post_position_update) lowers the stored tp_hit_level or closed_units,
\* nor, while a trailing stop is active, the stored highest_price.  (The save of
\* set_position_mode, the only step taken with req.pc = "mode", is not one of the
\* operations the claim is about and is left out.)
C1_Monotone ==
    [][(TakeoffsInRange /\ req.pc # "mode")
          => /\ db'.tp_hit_level >= db.tp_hit_level
             /\ db'.closed_units >= db.closed_units
             /\ (TrailingStopActive(db) /\ db.highest_price # None)
                   => (db'.highest_price # None /\ db'.highest_price >= db.highest_price)]_vars

\* C2: once the stored status is closed, no step changes any field of the row
\* (status, mode, tp_hit_level, sl_hit, closed_units, realized_pnl, highest_price,
\* exit_price, closed_at) and no step delivers a notification.
C2_ClosedAbsorbing ==
    [][db.status = "closed" => (db' = db /\ sentTp' = sentTp /\ sentSl' = sentSl)]_vars

\* C3: in every reachable state closed_units <= display_units = quantity x multiplier.
C3_ClosedUnitsBounded == db.closed_units <= DisplayUnits

\* the fields an exit may write
ExitFields(r) ==
    <<r.status, r.tp_hit_level, r.sl_hit, r.closed_units, r.realized_pnl,
      r.exit_price, r.closed_at>>

\* C4: a call of apply_exit whose notification delivery failed returned failure,
\* delivered nothing, and left status, tp_hit_level, sl_hit, closed_units, realized_pnl,
\* exit_price and closed_at of the stored row exactly as they were before the call.
C4_FailedNotificationAborts ==
    (Called /\ last.send_failed)
        => /\ ~last.ok
           /\ last.delivered = 0
           /\ ExitFields(last.post) = ExitFields(last.pre)
           /\ ExitFields(db) = ExitFields(last.pre)

C4_Witness ==
    /\ Called
    /\ last.send_failed
    /\ last.kind = "tp"
    /\ last.caller = "tracker"
    /\ db.status = "open"

\* C5: every call of apply_exit that returned success delivered exactly one
\* notification, whatever channels the owner has (signal, default, any active, none).
C5_SuccessDeliversOne == (Called /\ last.ok) => last.delivered = 1

\* C6: for every TP level n, at most one level-n notification is ever delivered.
C6_LevelAppliedOnce == \A n \in Levels : sentTp[n] <= 1

\* C7: the tracking pass calls apply_exit only on a re-loaded position that is open and
\* whose tp_hit_level and sl_hit are the values the pass evaluated.  Stated for the first
\* pass of a run, where only a manual action can have changed the row in between.
C7_PassFiresOnEvaluatedState ==
    (Called /\ last.caller = "tracker" /\ passes = 1)
        => /\ last.pos.status = "open"
           /\ last.pos.tp_hit_level = last.expected_tp
           /\ last.pos.sl_hit = last.expected_sl

\* the level's price and takeoff as a successful TP call read them
CallTpPrice == DataTpPrice(last.level)
CallTakeoffPct == IF last.takeoff_raw = None THEN DefaultTakeoff ELSE last.takeoff_raw

TpCall == Called /\ last.ok /\ last.kind = "tp"

\* C8 as stated, for a level that has a configured price: a successful TP exit at
\* level = tp_hit_level + 1 sets tp_hit_level = level, closes units =
\* round((display_units - closed_units) x takeoff_pct / 100), adds
\* (tp_price - entry_price) x units to realized_pnl, and sets status = closed,
\* exit_price = tp_price and closed_at exactly when closed_units >= display_units
\* afterwards.
C8_TpExitAsStated ==
    (TpCall /\ CallTpPrice # None) =>
        LET units == PyRound((DisplayUnits - last.pos.closed_units) * CallTakeoffPct, 100)
            full == last.post.closed_units >= DisplayUnits
        IN  /\ last.post.tp_hit_level = last.level
            /\ last.post.closed_units = last.pos.closed_units + units
            /\ last.post.realized_pnl
                 = last.pos.realized_pnl + (CallTpPrice - cfg.entry_price) * units
            /\ full => /\ last.post.status = "closed"
                       /\ last.post.exit_price = CallTpPrice
                       /\ last.post.closed_at = last.now
            /\ ~full => /\ last.post.status = last.pre.status
                        /\ last.post.exit_price = last.pre.exit_price
                        /\ last.post.closed_at = last.pre.closed_at

\* C8 amended: as stated, except that remaining units are max(0, display_units -
\* closed_units); realized_pnl is credited only when the level has a configured price,
\* entry_price is set and non-zero and units > 0, and is otherwise left as stored; and on
\* the full close exit_price is the level's price, or entry_price when the level has none.
C8_TpExitAccounting ==
    TpCall =>
        LET remaining == Max(0, DisplayUnits - last.pos.closed_units)
            units == PyRound(remaining * CallTakeoffPct, 100)
            credited == CallTpPrice # None /\ cfg.entry_price # 0 /\ units > 0
            full == last.post.closed_units >= DisplayUnits
        IN  /\ last.post.tp_hit_level = last.level
            /\ last.post.closed_units = last.pos.closed_units + units
            /\ credited => last.post.realized_pnl
                             = last.pos.realized_pnl + (CallTpPrice - cfg.entry_price) * units
            /\ ~credited => last.post.realized_pnl = last.pre.realized_pnl
            /\ full => /\ last.post.status = "closed"
                       /\ last.post.exit_price
                            = (IF CallTpPrice # None THEN CallTpPrice ELSE cfg.entry_price)
                       /\ last.post.closed_at = last.now
            /\ ~full => /\ last.post.status = last.pre.status
                        /\ last.post.exit_price = last.pre.exit_price
                        /\ last.post.closed_at = last.pre.closed_at
            /\ db = last.post

\* the spec's example: 100 units, takeoff 50%, tp1 = 120, entry = 100
C8_Witness ==
    /\ TpCall
    /\ last.level = 1
    /\ CallTakeoffPct = 50
    /\ DisplayUnits = 100
    /\ cfg.entry_price = 100
    /\ CallTpPrice = 120
    /\ last.pre.closed_units = 0
    /\ db.realized_pnl = 1000
    /\ db.closed_units = 50
    /\ db.status = "open"

\* C9: a successful TP exit at the last configured TP level with no takeoff stored for
\* that level closes all remaining units and sets status = closed.  Stated for calls made
\* on the state the caller evaluated (no other writer in between).
C9_LastLevelDefaultsToFull ==
    (TpCall /\ last.level = Len(cfg.tp_prices) /\ last.takeoff_raw = None
        /\ last.pos = last.pre /\ last.pos.tp_hit_level = last.expected_tp)
        => /\ last.post.closed_units >= DisplayUnits
           /\ last.post.status = "closed"

\* C10: a successful SL-kind exit, from the tracking pass or from a manual request with or
\* without an observed price, stores sl_hit = true, status = closed, closed_at = now and
\* exit_price = the position's entry_price, and leaves tp_hit_level, closed_units and
\* realized_pnl as stored.
C10_SlExit ==
    (Called /\ last.ok /\ last.kind = "sl")
        => /\ last.post.sl_hit
           /\ last.post.status = "closed"
           /\ last.post.closed_at = last.now
           /\ last.post.exit_price = cfg.entry_price
           /\ last.post.tp_hit_level = last.pre.tp_hit_level
           /\ last.post.closed_units = last.pre.closed_units
           /\ last.post.realized_pnl = last.pre.realized_pnl
           /\ db = last.post

C10_Witness ==
    /\ Called
    /\ last.ok
    /\ last.kind = "sl"
    /\ last.caller = "manual"
    /\ last.pre.status = "open"
    /\ last.pre.tp_hit_level = 1
    /\ db.closed_units = 50
    /\ db.sl_hit

----------------------------------------------------------------------------
(* run_auto_tracking_check over several positions (specification PassSpec)   *)
(*                                                                          *)
(* One runner at a time iterates the open auto positions; no other writer   *)
(* touches the rows during the pass.  All positions carry the same plan.    *)
(* A step of the loop body may raise: refresh_from_db, the building of the  *)
(* embed, or pos.save inside the atomic block.                              *)

\* bound of PassSpec: passes started
MaxTicks == 2

\* the positions of the table, in queryset order
PassOrder == <<1, 2>>
PassIds == {PassOrder[k] : k \in DOMAIN PassOrder}

\* highest_price as stored: unset, or a peak entered through the admin change form
PassPeaks == {None, 150}
PassTriggers == {"entry", "tp1"}
PassSlPrices == {None, 130}
PassQuotes == {None, 121, 127, 128, 160}
PassFaults == {"none", "reload", "embed", "save"}
\* the owner has a signal channel, or no channel at all
PassChannels == {ch \in ChannelConfigs : ch.signal \/ ~ch.any}

PassRow(peak) == [NewRow("auto") EXCEPT !.highest_price = peak]

NoEval ==
    [id |-> 0, q |-> None, dry_run |-> FALSE, fault |-> "none", kind |-> "none",
     called |-> FALSE, ok |-> FALSE, delivered |-> 0, raised |-> FALSE,
     pre |-> NewRow("auto"), post |-> NewRow("auto"), rest |-> <<>>]

PassInit ==
    /\ \E sl \in PassSlPrices, trig \in PassTriggers :
          cfg = [entry_price |-> 100, tp_prices |-> <<120, 140>>, sl_price |-> sl,
                 trailing_stop_trigger |-> trig, trailing_stop_per |-> 15,
                 quantity |-> 1, multiplier |-> 100]
    /\ takeoff = [l \in Levels |-> None]
    /\ \E peaks \in [PassIds -> PassPeaks] :
          tick = [pc |-> "idle", runner |-> "worker", dry_run |-> FALSE, queue |-> <<>>,
                  rows |-> [i \in PassIds |-> PassRow(peaks[i])],
                  started |-> 0, propagated |-> FALSE, ev |-> NoEval]
    /\ db = NewRow("auto")
    /\ trk = [t \in Trackers |-> IdleTracker]
    /\ req = IdleRequest
    /\ sentTp = [l \in Levels |-> 0]
    /\ sentSl = 0
    /\ clock = 1
    /\ passes = 0
    /\ requests = 0
    /\ last = NoCall
    /\ sel = NoSel
    /\ run = NoRun
    /\ fetch = NoFetch
    /\ wrk = NoWorker

\* the ids of the open auto positions, in queryset order
OpenAuto(rows) ==
    LET selected(i) == rows[i].status = "open" /\ rows[i].mode = "auto"
    IN  SelectSeq(PassOrder, selected)

\* the loop body saving a new peak in a dry run too
LoopBody_dry_run_saves_peak(row, q, dry, fault, url, send_ok, now) ==
    LET active == q # None /\ TrailingStopActive(row)
        highest0 == IF row.highest_price # None THEN row.highest_price ELSE q
        new_peak == active /\ q > highest0
        highest == IF new_peak THEN q ELSE highest0
        row1 == IF new_peak THEN [row EXCEPT !.highest_price = highest] ELSE row
        kind == ExitChoice(row, q, highest)
        quiet == [kind |-> kind, called |-> FALSE, ok |-> FALSE, delivered |-> 0,
                  raised |-> FALSE, row |-> row1]
        r == apply_position_exit(row1, row1, kind, None, url, send_ok, now)
    IN  IF kind = "none" \/ dry THEN quiet
        ELSE IF fault = "reload" THEN [quiet EXCEPT !.raised = TRUE]
        ELSE IF row1.status # "open" THEN quiet
        ELSE IF fault = "embed" THEN [quiet EXCEPT !.raised = TRUE, !.called = TRUE]
        ELSE IF fault = "save" /\ r.ok
             THEN [quiet EXCEPT !.raised = TRUE, !.called = TRUE, !.delivered = r.delivered]
        ELSE [kind |-> kind, called |-> TRUE, ok |-> r.ok, delivered |-> r.delivered,
              raised |-> FALSE, row |-> r.row]

\* the loop body for one position whose stored row is `row`, with quote q
LoopBody(row, q, dry, fault, url, send_ok, now) ==
    LET active == q # None /\ TrailingStopActive(row)
        highest0 == IF row.highest_price # None THEN row.highest_price ELSE q
        new_peak == active /\ q > highest0
        highest == IF new_peak THEN q ELSE highest0
        row1 == IF new_peak /\ ~dry THEN [row EXCEPT !.highest_price = highest] ELSE row
        kind == ExitChoice(row, q, highest)
        quiet == [kind |-> kind, called |-> FALSE, ok |-> FALSE, delivered |-> 0,
                  raised |-> FALSE, row |-> row1]
        r == apply_position_exit(row1, row1, kind, None, url, send_ok, now)
    IN  IF kind = "none" \/ dry THEN quiet
        ELSE IF fault = "reload" THEN [quiet EXCEPT !.raised = TRUE]
        ELSE IF row1.status # "open" THEN quiet
        ELSE IF fault = "embed" THEN [quiet EXCEPT !.raised = TRUE, !.called = TRUE]
        ELSE IF fault = "save" /\ r.ok
             THEN [quiet EXCEPT !.raised = TRUE, !.called = TRUE, !.delivered = r.delivered]
        ELSE [kind |-> kind, called |-> TRUE, ok |-> r.ok, delivered |-> r.delivered,
              raised |-> FALSE, row |-> r.row]

\* a runner starts a pass: the worker's loop, or the command (with or without --dry-run)
pass_load ==
    /\ tick.pc = "idle"
    /\ tick.started < MaxTicks
    /\ \E t \in Trackers, dry \in BOOLEAN :
        /\ t = "worker" => ~dry
        /\ tick' = [tick EXCEPT !.pc = "loop", !.runner = t, !.dry_run = dry,
                                !.queue = OpenAuto(tick.rows),
                                !.started = @ + 1, !.propagated = FALSE, !.ev = NoEval]
    /\ UNCHANGED <<db, takeoff, cfg, trk, req, sentTp, sentSl, clock, passes, requests, last, sel, run, fetch, wrk>>

\* one iteration of `for pos in open_auto`
pass_position ==
    /\ tick.pc = "loop"
    /\ tick.queue # <<>>
    /\ \E q \in PassQuotes, fault \in PassFaults, ch \in PassChannels, send_ok \in BOOLEAN :
        \* without a quote nothing is reloaded or sent; a raise is drawn with a webhook
        \* that answers (a failed send returns before pos.save)
        /\ q = None => (fault = "none" /\ send_ok)
        /\ fault # "none" => send_ok
        /\ LET id == Head(tick.queue)
               row == tick.rows[id]
               b == LoopBody(row, q, tick.dry_run, fault, WebhookUrl(ch), send_ok, clock)
               ev == [id |-> id, q |-> q, dry_run |-> tick.dry_run,
                      fault |-> IF b.raised THEN fault ELSE "none",
                      kind |-> b.kind, called |-> b.called, ok |-> b.ok,
                      delivered |-> b.delivered, raised |-> b.raised,
                      pre |-> row, post |-> b.row, rest |-> Tail(tick.queue)]
           IN  tick' = [tick EXCEPT !.rows[id] = b.row,
                                    !.ev = ev,
                                    \* an exception leaves the for loop and the function
                                    !.queue = IF b.raised THEN <<>> ELSE Tail(tick.queue),
                                    !.pc = IF b.raised THEN "idle" ELSE "loop",
                                    \* the worker's loop logs it; the command lets it through
                                    !.propagated = b.raised /\ tick.runner = "command"]
    /\ UNCHANGED <<db, takeoff, cfg, trk, req, sentTp, sentSl, clock, passes, requests, last, sel, run, fetch, wrk>>

\* the for loop is exhausted and run_auto_tracking_check returns
pass_return ==
    /\ tick.pc = "loop"
    /\ tick.queue = <<>>
    /\ tick' = [tick EXCEPT !.pc = "idle", !.ev = NoEval]
    /\ UNCHANGED <<db, takeoff, cfg, trk, req, sentTp, sentSl, clock, passes, requests, last, sel, run, fetch, wrk>>

PassNext ==
    \/ pass_load
    \/ pass_position
    \/ pass_return

PassSpec == PassInit /\ [][PassNext]_vars

----------------------------------------------------------------------------
(* Properties of the tracking pass *)

\* the step just taken evaluated a position
Evaluated == tick.pc # "off" /\ tick.ev.id # 0

\* the peak the trailing floor is taken from: max(stored peak, quote), an unset peak
\* counting as no peak
PeakFor(pre, q) == IF pre.highest_price = None THEN q ELSE Max(pre.highest_price, q)

\* the exit the stated order selects for a position stored as pre with quote p
FirstMatch(pre, p) ==
    LET trailing == /\ cfg.trailing_stop_per > 0
                    /\ \/ cfg.trailing_stop_trigger = "entry"
                       \/ cfg.trailing_stop_trigger = "tp1" /\ pre.tp_hit_level >= 1
        level == pre.tp_hit_level + 1
        price == IF level <= Len(cfg.tp_prices) THEN cfg.tp_prices[level] ELSE None
    IN  IF trailing /\ p * 100 <= PeakFor(pre, p) * (100 - cfg.trailing_stop_per)
        THEN "sl"
        ELSE IF cfg.sl_price # None /\ p <= cfg.sl_price THEN "sl"
        ELSE IF price # None /\ p >= price THEN "tp"
        ELSE "none"

\* C11: in a pass that is not a dry run, for a position evaluated with quote p and no
\* other writer on it during the pass, the exit attempted is the first match of:
\* trailing stop active and p <= peak x (1 - trailing_pct/100) -> SL; sl_price configured
\* and p <= sl_price -> SL; price configured for level tp_hit_level + 1 and p >= it -> TP
\* for exactly that level; otherwise none.  At most one exit is applied, and when no
\* rule matches no exit field changes and nothing is sent.
C11_FirstMatchWins ==
    (Evaluated /\ ~tick.ev.dry_run /\ ~tick.ev.raised /\ tick.ev.q # None) =>
        LET ev == tick.ev
            want == FirstMatch(ev.pre, ev.q)
        IN  /\ ev.kind = want
            /\ ev.called <=> (want # "none")
            /\ ev.delivered <= 1
            /\ ~ev.ok => ExitFields(ev.post) = ExitFields(ev.pre)
            /\ (ev.ok /\ want = "sl")
                  => /\ ev.post.sl_hit /\ ev.post.status = "closed"
                     /\ ev.post.tp_hit_level = ev.pre.tp_hit_level
            /\ (ev.ok /\ want = "tp")
                  => /\ ev.post.tp_hit_level = ev.pre.tp_hit_level + 1
                     /\ ~ev.post.sl_hit

\* the spec's example: stored peak 150, trailing 15%, quote 127 -> SL-kind exit
C11_Witness ==
    /\ Evaluated
    /\ ~tick.ev.dry_run
    /\ tick.ev.pre.highest_price = 150
    /\ cfg.trailing_stop_per = 15
    /\ tick.ev.q = 127
    /\ tick.ev.kind = "sl"
    /\ tick.ev.ok
    /\ tick.rows[tick.ev.id].sl_hit

\* C12: after a position with an active trailing stop was evaluated with quote p in a
\* pass that is not a dry run, its stored highest_price is max(stored peak, p), an unset
\* peak counting as no peak (so the stored value becomes p).
C12_PeakPersisted ==
    (Evaluated /\ ~tick.ev.dry_run /\ tick.ev.q # None /\ TrailingStopActive(tick.ev.pre))
        => tick.rows[tick.ev.id].highest_price = PeakFor(tick.ev.pre, tick.ev.q)

\* C13: a position evaluated with no quote is skipped: its row is unchanged, nothing is
\* sent, no error is raised, the pass goes on with the remaining positions, and the
\* position is still among the open auto positions the next pass selects.
C13_NoQuoteSkips ==
    (Evaluated /\ tick.ev.q = None) =>
        /\ tick.ev.post = tick.ev.pre
        /\ tick.rows[tick.ev.id] = tick.ev.pre
        /\ ~tick.ev.called
        /\ tick.ev.delivered = 0
        /\ ~tick.ev.raised
        /\ tick.pc = "loop"
        /\ tick.queue = tick.ev.rest
        /\ \E k \in DOMAIN OpenAuto(tick.rows) : OpenAuto(tick.rows)[k] = tick.ev.id

\* the first position has no quote in the second pass; the second is still to come
C13_Witness ==
    /\ Evaluated
    /\ tick.ev.q = None
    /\ tick.ev.id = 1
    /\ tick.started = 2
    /\ tick.queue = <<2>>

\* C14: when evaluating or exiting a position raised an error, the pass goes on with
\* the remaining positions and the error does not reach the caller of the pass.
C14_FailuresIsolated ==
    (Evaluated /\ tick.ev.raised) =>
        /\ tick.pc = "loop"
        /\ tick.queue = tick.ev.rest
        /\ ~tick.propagated

\* C15: at no time are two executions of the tracking pass in progress.
C15_PassesNeverOverlap ==
    ~(trk["worker"].pc # "idle" /\ trk["command"].pc # "idle")

----------------------------------------------------------------------------
(* The option contract selector (specification SelSpec)                      *)
(*                                                                          *)
(* PolygonClient.get_best_option and pick_best_option_from_snapshots, and    *)
(* the answer of the best_option view.  Candidates are rows as _norm         *)
(* returns them.  Units: delta in hundredths, spread in cents, DTE in days,  *)
(* moneyness and strike bands in basis points of the underlying price.      *)

\* bound of SelSpec: snapshots in the chain
MaxSnaps == 2

Abs(x) == IF x < 0 THEN 0 - x ELSE x

\* Python's `x or d` on an optional number: None and 0 both give d
OrDefault(x, d) == IF x = None \/ x = 0 THEN d ELSE x

\* underlying_price
Underlying == 100

\* the sort keys of a missing DTE and of a missing spread (9e9 in the code)
NoDteKey == 9999
NoSpreadKey == 9 * 100000000

\* the levels of a horizon: DTE windows, |delta| band, strike band, OI floor, spread cap
ScalpLevels ==
    << [dte_ranges |-> << <<0, 0>> >>, delta_lo |-> 35, delta_hi |-> 60,
        strike_percent |-> None, min_oi |-> 500, max_spread |-> 10, target_dte |-> None],
       [dte_ranges |-> << <<0, 0>> >>, delta_lo |-> 25, delta_hi |-> 65,
        strike_percent |-> None, min_oi |-> 300, max_spread |-> 15, target_dte |-> None],
       [dte_ranges |-> << <<0, 1>> >>, delta_lo |-> 25, delta_hi |-> 65,
        strike_percent |-> None, min_oi |-> 200, max_spread |-> 15, target_dte |-> None],
       [dte_ranges |-> << <<0, 2>> >>, delta_lo |-> 20, delta_hi |-> 70,
        strike_percent |-> None, min_oi |-> 100, max_spread |-> 20, target_dte |-> None] >>

SwingLevels ==
    << [dte_ranges |-> << <<13, 25>>, <<6, 15>> >>, delta_lo |-> 40, delta_hi |-> 60,
        strike_percent |-> 200, min_oi |-> 1000, max_spread |-> 5, target_dte |-> None],
       [dte_ranges |-> << <<13, 45>>, <<6, 30>> >>, delta_lo |-> 40, delta_hi |-> 60,
        strike_percent |-> 200, min_oi |-> 500, max_spread |-> 8, target_dte |-> None],
       [dte_ranges |-> << <<13, 60>>, <<6, 45>> >>, delta_lo |-> 30, delta_hi |-> 70,
        strike_percent |-> 500, min_oi |-> 300, max_spread |-> 10, target_dte |-> None],
       [dte_ranges |-> << <<13, 90>>, <<6, 60>> >>, delta_lo |-> 25, delta_hi |-> 75,
        strike_percent |-> 800, min_oi |-> 200, max_spread |-> 15, target_dte |-> None] >>

LeapLevels ==
    << [dte_ranges |-> << <<330, 395>> >>, delta_lo |-> 50, delta_hi |-> 80,
        strike_percent |-> 200, min_oi |-> 500, max_spread |-> 5, target_dte |-> 365],
       [dte_ranges |-> << <<270, 450>> >>, delta_lo |-> 50, delta_hi |-> 80,
        strike_percent |-> 200, min_oi |-> 300, max_spread |-> 8, target_dte |-> 365],
       [dte_ranges |-> << <<180, 500>> >>, delta_lo |-> 40, delta_hi |-> 85,
        strike_percent |-> 500, min_oi |-> 200, max_spread |-> 10, target_dte |-> 365],
       [dte_ranges |-> << <<120, 550>> >>, delta_lo |-> 35, delta_hi |-> 90,
        strike_percent |-> 800, min_oi |-> 100, max_spread |-> 15, target_dte |-> 365] >>

\* LevelOf with the DTE window of leap level 1 starting at 340 instead of 270
LevelOf_leap_level1_from_340(tt, k) ==
    IF tt = "scalp" THEN ScalpLevels[k + 1]
    ELSE IF tt = "swing" THEN SwingLevels[k + 1]
    ELSE IF k = 1 THEN [LeapLevels[2] EXCEPT !.dte_ranges = << <<340, 450>> >>]
    ELSE LeapLevels[k + 1]

\* levels[k] of trade type tt, k = 0..3
LevelOf(tt, k) ==
    IF tt = "scalp" THEN ScalpLevels[k + 1]
    ELSE IF tt = "swing" THEN SwingLevels[k + 1]
    ELSE LeapLevels[k + 1]

\* m = (strike - px) / px
Moneyness(strike) == ((strike - Underlying) * 10000) \div Underlying

\* moneyness_score(strike, is_call, max_percent); 0.5 is 5000 basis points
moneyness_score(strike, is_call, max_percent) ==
    LET m == Moneyness(strike)
        target == IF is_call THEN max_percent ELSE 0 - max_percent
    IN  Abs(m - target) + (IF Abs(m) <= max_percent THEN 0 ELSE 5000 + Abs(m))

strike_in_range(strike, max_percent) == Abs(Moneyness(strike)) <= max_percent

\* InLevel letting a spread equal to the level's maximum through
InLevel_spread_inclusive(tt, level, r) ==
    LET oi == OrDefault(r.open_interest, 0)
    IN  /\ r.dte # None
        /\ \E w \in DOMAIN level.dte_ranges :
              level.dte_ranges[w][1] <= r.dte /\ r.dte <= level.dte_ranges[w][2]
        /\ r.delta # None
        /\ level.delta_lo <= Abs(r.delta) /\ Abs(r.delta) <= level.delta_hi
        /\ tt # "scalp" => strike_in_range(r.strike, level.strike_percent)
        /\ oi >= level.min_oi
        /\ r.spread # None
        /\ r.spread <= level.max_spread

\* the filter of one level: row r is appended to candidates
InLevel(tt, level, r) ==
    LET oi == OrDefault(r.open_interest, 0)
    IN  /\ r.dte # None
        /\ \E w \in DOMAIN level.dte_ranges :
              level.dte_ranges[w][1] <= r.dte /\ r.dte <= level.dte_ranges[w][2]
        /\ r.delta # None
        /\ level.delta_lo <= Abs(r.delta) /\ Abs(r.delta) <= level.delta_hi
        /\ tt # "scalp" => strike_in_range(r.strike, level.strike_percent)
        /\ oi >= level.min_oi
        /\ r.spread # None
        /\ r.spread < level.max_spread

\* the key candidates.sort orders by
SortKey(tt, level, prefer_call, r) ==
    LET spread == OrDefault(r.spread, NoSpreadKey)
        oi == 0 - OrDefault(r.open_interest, 0)
    IN  IF tt = "scalp"
        THEN << Abs(Abs(OrDefault(r.delta, 0)) - 50), OrDefault(r.dte, NoDteKey), spread, oi >>
        ELSE IF tt = "swing"
        THEN << moneyness_score(r.strike, prefer_call, level.strike_percent),
                OrDefault(r.dte, NoDteKey), spread, oi >>
        ELSE << Abs(OrDefault(r.dte, 0) - level.target_dte),
                moneyness_score(r.strike, prefer_call, level.strike_percent), spread, oi >>

\* tuple comparison a < b
LexLess(a, b) ==
    \E i \in DOMAIN a : a[i] < b[i] /\ \A j \in 1..(i - 1) : a[j] = b[j]

\* candidates[0] after the stable sort: the first candidate no other one sorts before
SortedFirst(tt, level, prefer_call, candidates) ==
    LET key(i) == SortKey(tt, level, prefer_call, candidates[i])
        least(i) == \A j \in DOMAIN candidates : ~LexLess(key(j), key(i))
        first == CHOOSE i \in DOMAIN candidates :
                    least(i) /\ \A j \in 1..(i - 1) : ~least(j)
    IN  candidates[first]

NoRow == [delta |-> None, open_interest |-> None, spread |-> None, dte |-> None, strike |-> 100]

\* the selector returned None
NoResult == [found |-> FALSE, row |-> NoRow, fallback_level |-> None, consulted |-> 0]

\* the level loop going on to the most relaxed level that has candidates
RECURSIVE LevelLoop_most_relaxed(_, _, _, _)
LevelLoop_most_relaxed(tt, prefer_call, rows, level_idx) ==
    IF level_idx > 3 THEN NoResult
    ELSE LET level == LevelOf(tt, level_idx)
             keep(r) == InLevel(tt, level, r)
             candidates == SelectSeq(rows, keep)
             later == LevelLoop_most_relaxed(tt, prefer_call, rows, level_idx + 1)
         IN  IF later.found THEN later
             ELSE IF candidates # <<>>
             THEN [found |-> TRUE,
                   row |-> SortedFirst(tt, level, prefer_call, candidates),
                   fallback_level |-> level_idx,
                   consulted |-> 4]
             ELSE NoResult

\* `for level_idx, level in enumerate(levels)` from level_idx on; consulted counts the
\* levels whose filter was run
RECURSIVE LevelLoop(_, _, _, _)
LevelLoop(tt, prefer_call, rows, level_idx) ==
    IF level_idx > 3 THEN [NoResult EXCEPT !.consulted = 4]
    ELSE LET level == LevelOf(tt, level_idx)
             keep(r) == InLevel(tt, level, r)
             candidates == SelectSeq(rows, keep)
         IN  IF candidates # <<>>
             THEN [found |-> TRUE,
                   row |-> SortedFirst(tt, level, prefer_call, candidates),
                   fallback_level |-> level_idx,
                   consulted |-> level_idx + 1]
             ELSE LevelLoop(tt, prefer_call, rows, level_idx + 1)

pick_best_option_from_snapshots(snapshots, trade_type, side) ==
    IF snapshots = <<>> THEN NoResult
    ELSE LevelLoop(trade_type, side = "call", snapshots, 0)

\* get_best_option reporting an empty selection as a failed fetch
get_best_option_none_is_failure(fetched, snapshots, trade_type, side) ==
    LET best == pick_best_option_from_snapshots(snapshots, trade_type, side)
    IN  IF ~fetched THEN [best |-> NoResult, fetch_failed |-> TRUE]
        ELSE [best |-> best, fetch_failed |-> ~best.found]

\* get_best_option: (best, fetch_failed); fetched is FALSE when the chain request
\* returned None
get_best_option(fetched, snapshots, trade_type, side) ==
    IF ~fetched THEN [best |-> NoResult, fetch_failed |-> TRUE]
    ELSE [best |-> pick_best_option_from_snapshots(snapshots, trade_type, side),
          fetch_failed |-> FALSE]

\* a normalised snapshot row
Row(delta, oi, spread, dte, strike) ==
    [delta |-> delta, open_interest |-> oi, spread |-> spread, dte |-> dte, strike |-> strike]

ScalpRows ==
    {Row(45, 600, 5, 0, 100), Row(55, 400, 20, 0, 100), Row(45, 600, 0, 0, 100),
     Row(45, 250, 12, 1, 100), Row(45, 250, 8, 0, 100), Row(None, 600, 5, 0, 100),
     Row(45, 600, None, 0, 100), Row(45, 600, 5, None, 100), Row(30, 150, 5, 2, 100),
     Row(45, 900, 5, 0, 100), Row(0 - 50, 600, 5, 0, 100)}

SwingRows ==
    {Row(50, 1200, 3, 20, 102), Row(50, 1200, 3, 20, 100), Row(50, 400, 8, 40, 105),
     Row(50, 400, 8, 40, 102), Row(0 - 50, 1200, 3, 20, 98), Row(50, 1200, 4, 10, 102),
     Row(50, 1200, None, 20, 102)}

LeapRows ==
    {Row(60, 600, 3, 365, 100), Row(60, 600, 3, 340, 102), Row(60, 250, 8, 200, 105),
     Row(60, 250, 8, 365, 102), Row(60, 600, 2, 340, 102), Row(None, 600, 3, 365, 102)}

RowsOf(tt) == IF tt = "scalp" THEN ScalpRows ELSE IF tt = "swing" THEN SwingRows ELSE LeapRows

TradeTypes == {"scalp", "swing", "leap"}
Sides == {"call", "put"}

\* the chains a fetch can return: up to MaxSnaps rows
Chains(tt) == UNION {[1..n -> RowsOf(tt)] : n \in 0..MaxSnaps}

SelInit ==
    /\ \E tt \in TradeTypes, side \in Sides, fetched \in BOOLEAN :
       \E snapshots \in Chains(tt) :
          /\ ~fetched => snapshots = <<>>
          /\ sel = [pc |-> "request", trade_type |-> tt, side |-> side,
                    fetched |-> fetched, snapshots |-> snapshots,
                    best |-> NoResult, fetch_failed |-> FALSE, status |-> 0]
    /\ cfg = [entry_price |-> 100, tp_prices |-> <<120, 140>>, sl_price |-> None,
              trailing_stop_trigger |-> "", trailing_stop_per |-> 0,
              quantity |-> 1, multiplier |-> 100]
    /\ takeoff = [l \in Levels |-> None]
    /\ db = NewRow("manual")
    /\ trk = [t \in Trackers |-> IdleTracker]
    /\ req = IdleRequest
    /\ sentTp = [l \in Levels |-> 0]
    /\ sentSl = 0
    /\ clock = 1
    /\ passes = 0
    /\ requests = 0
    /\ last = NoCall
    /\ tick = NoTick
    /\ run = NoRun
    /\ fetch = NoFetch
    /\ wrk = NoWorker

\* best_option: client.get_best_option(...)
best_option_select ==
    /\ sel.pc = "request"
    /\ LET g == get_best_option(sel.fetched, sel.snapshots, sel.trade_type, sel.side)
       IN  sel' = [sel EXCEPT !.pc = "selected", !.best = g.best,
                              !.fetch_failed = g.fetch_failed]
    /\ UNCHANGED <<db, takeoff, cfg, trk, req, sentTp, sentSl, clock, passes, requests, last, tick, run, fetch, wrk>>

\* best_option: the JSON response
best_option_respond ==
    /\ sel.pc = "selected"
    /\ sel' = [sel EXCEPT !.pc = "answered",
                          !.status = IF sel.fetch_failed THEN 502
                                     ELSE IF ~sel.best.found THEN 404
                                     ELSE 200]
    /\ UNCHANGED <<db, takeoff, cfg, trk, req, sentTp, sentSl, clock, passes, requests, last, tick, run, fetch, wrk>>

SelNext ==
    \/ best_option_select
    \/ best_option_respond

SelSpec == SelInit /\ [][SelNext]_vars

----------------------------------------------------------------------------
(* Properties of the contract selector *)

\* the selector ran on a fetched chain
Selected == sel.pc \in {"selected", "answered"} /\ sel.fetched

\* the rows of the chain that pass level k of the chosen horizon
Survivors(k) ==
    {i \in DOMAIN sel.snapshots :
        InLevel(sel.trade_type, LevelOf(sel.trade_type, k), sel.snapshots[i])}

\* C16: a returned candidate comes from the first level whose filtered set is non-empty:
\* fallback_level k is the smallest level with a survivor, the candidate is one of the
\* survivors of level k, and no level after k was consulted.
C16_FirstNonEmptyLevel ==
    (Selected /\ sel.best.found) =>
        LET k == sel.best.fallback_level
        IN  /\ k \in 0..3
            /\ Survivors(k) # {}
            /\ \A j \in 0..(k - 1) : Survivors(j) = {}
            /\ \E i \in Survivors(k) : sel.snapshots[i] = sel.best.row
            /\ sel.best.consulted = k + 1

\* levels 0 and 1 are empty, level 2 has a candidate
C16_Witness ==
    /\ Selected
    /\ sel.best.found
    /\ sel.best.fallback_level = 2
    /\ Survivors(0) = {} /\ Survivors(1) = {}
    /\ Survivors(3) # {}

\* C17: a candidate returned at level k has DTE inside one of the level's windows,
\* |delta| inside the level's band, open interest at or above the floor, spread strictly
\* below the maximum and, for swing and leap, |strike - underlying| / underlying within
\* the strike band; its delta, spread and DTE are present.
C17_ReturnedPassesLevel ==
    (Selected /\ sel.best.found) =>
        LET r == sel.best.row
            L == LevelOf(sel.trade_type, sel.best.fallback_level)
        IN  /\ r.delta # None /\ r.spread # None /\ r.dte # None
            /\ \E w \in DOMAIN L.dte_ranges :
                  L.dte_ranges[w][1] <= r.dte /\ r.dte <= L.dte_ranges[w][2]
            /\ L.delta_lo <= Abs(r.delta) /\ Abs(r.delta) <= L.delta_hi
            /\ r.open_interest # None /\ r.open_interest >= L.min_oi
            /\ r.spread < L.max_spread
            /\ sel.trade_type \in {"swing", "leap"}
                  => Abs(r.strike - Underlying) * 10000 <= L.strike_percent * Underlying

\* the spec's example: scalp, {delta .45, oi 600, spread .05, dte 0} and
\* {delta .55, oi 400, spread .20, dte 0}: level 0 returns the first
C17_Witness ==
    /\ Selected
    /\ sel.trade_type = "scalp"
    /\ sel.snapshots = <<Row(45, 600, 5, 0, 100), Row(55, 400, 20, 0, 100)>>
    /\ sel.best.found
    /\ sel.best.fallback_level = 0
    /\ sel.best.row = Row(45, 600, 5, 0, 100)

\* C18: when no row of a fetched chain survives any of the four levels, the selector
\* returns None, get_best_option returns (None, fetch_failed = FALSE) and the view answers
\* 404; a failed fetch is (None, TRUE) and is answered 502.
C18_NoneIsNotAnError ==
    /\ (Selected /\ \A k \in 0..3 : Survivors(k) = {})
          => /\ ~sel.best.found
             /\ ~sel.fetch_failed
             /\ sel.pc = "answered" => sel.status = 404
    /\ (sel.pc \in {"selected", "answered"} /\ ~sel.fetched)
          => /\ ~sel.best.found
             /\ sel.fetch_failed
             /\ sel.pc = "answered" => sel.status = 502

C18_Witness ==
    /\ sel.pc = "answered"
    /\ sel.fetched
    /\ Len(sel.snapshots) = MaxSnaps
    /\ \A k \in 0..3 : Survivors(k) = {}
    /\ sel.status = 404

\* the ranking of a scalp candidate as stated: distance of |delta| from 0.50, then
\* spread (0 is the tightest), then open interest, higher first
ScalpRank(r) == << Abs(Abs(r.delta) - 50), r.spread, 0 - OrDefault(r.open_interest, 0) >>

\* C19: for scalp, no survivor of the returned level ranks before the returned candidate
\* by (| |delta| - 0.50 |, spread, -open interest).
C19_ScalpRanking ==
    (Selected /\ sel.trade_type = "scalp" /\ sel.best.found) =>
        \A i \in Survivors(sel.best.fallback_level) :
            ~LexLess(ScalpRank(sel.snapshots[i]), ScalpRank(sel.best.row))

\* the ranking of a swing or leap candidate as stated: moneyness score against a target
\* offset of +2% (calls) or -2% (puts) with the penalty beyond the level's strike band,
\* then for leap the distance of DTE from 365, then spread, then open interest
MoneynessRank(r, k) ==
    LET m == Moneyness(r.strike)
        target == IF sel.side = "call" THEN 200 ELSE 0 - 200
        band == LevelOf(sel.trade_type, k).strike_percent
        score == Abs(m - target) + (IF Abs(m) <= band THEN 0 ELSE 5000 + Abs(m))
    IN  << score, IF sel.trade_type = "leap" THEN Abs(r.dte - 365) ELSE 0,
           r.spread, 0 - OrDefault(r.open_interest, 0) >>

\* C20: for swing and leap, no survivor of the returned level ranks before the returned
\* candidate by (moneyness score, for leap |DTE - 365|, spread, -open interest).
C20_MoneynessRanking ==
    (Selected /\ sel.trade_type \in {"swing", "leap"} /\ sel.best.found) =>
        \A i \in Survivors(sel.best.fallback_level) :
            ~LexLess(MoneynessRank(sel.snapshots[i], sel.best.fallback_level),
                     MoneynessRank(sel.best.row, sel.best.fallback_level))

\* the first DTE window of swing level k
InFirstWindow(r, k) ==
    LET w == LevelOf("swing", k).dte_ranges[1]
    IN  r.dte # None /\ w[1] <= r.dte /\ r.dte <= w[2]

\* C21: for swing, when a survivor of the returned level has its DTE in the level's first
\* window (13-25 at level 0), the returned candidate has its DTE in that window; a
\* candidate of the second window only is returned when the first window has no survivor.
C21_FirstWindowPreferred ==
    (Selected /\ sel.trade_type = "swing" /\ sel.best.found) =>
        LET k == sel.best.fallback_level
        IN  (\E i \in Survivors(k) : InFirstWindow(sel.snapshots[i], k))
                => InFirstWindow(sel.best.row, k)

\* the distance of |delta| from 0.50, the first key of the scalp ranking
DeltaDistance(r) == Abs(Abs(r.delta) - 50)

\* C25: for scalp, among the survivors of the returned level tied with the returned
\* candidate on the delta distance, none has a shorter DTE than the returned candidate,
\* a DTE of 0 included.
C25_ShorterDteFirst ==
    (Selected /\ sel.trade_type = "scalp" /\ sel.best.found) =>
        \A i \in Survivors(sel.best.fallback_level) :
            DeltaDistance(sel.snapshots[i]) = DeltaDistance(sel.best.row)
                => sel.best.row.dte <= sel.snapshots[i].dte

\* the rows on and next to the edges of every band of the four levels of trade type tt:
\* each field takes the values at which some level's filter changes its answer
EdgeRows(tt) ==
    LET ks == 0..3
        dtes == UNION {UNION {{LevelOf(tt, k).dte_ranges[w][1] - 1, LevelOf(tt, k).dte_ranges[w][1],
                               LevelOf(tt, k).dte_ranges[w][2], LevelOf(tt, k).dte_ranges[w][2] + 1} :
                              w \in DOMAIN LevelOf(tt, k).dte_ranges} : k \in ks}
        deltas == UNION {{LevelOf(tt, k).delta_lo - 1, LevelOf(tt, k).delta_lo,
                          LevelOf(tt, k).delta_hi, LevelOf(tt, k).delta_hi + 1} : k \in ks}
        ois == UNION {{LevelOf(tt, k).min_oi - 1, LevelOf(tt, k).min_oi} : k \in ks}
        spreads == UNION {{LevelOf(tt, k).max_spread - 1, LevelOf(tt, k).max_spread} : k \in ks}
        offs == UNION {{LevelOf(tt, k).strike_percent \div 100,
                        LevelOf(tt, k).strike_percent \div 100 + 1} : k \in ks}
        strikes == IF tt = "scalp" THEN {Underlying}
                   ELSE {Underlying} \cup {Underlying + o : o \in offs}
                                     \cup {Underlying - o : o \in offs}
    IN  [delta : deltas \cup {None}, open_interest : ois \cup {None},
         spread : spreads \cup {None, 0}, dte : dtes \cup {None}, strike : strikes]

\* C30: the level tables are nested: a row that passes level k passes level k + 1
\* (k = 0, 1, 2), for the rows of the chain and for every row on the edges of the bands;
\* hence the selector returns no candidate exactly when no row passes level 3.  The
\* tables do not depend on the state: the edge rows of a horizon are examined in the
\* state where the view has answered a request of that horizon on an empty chain.
C30_LevelsNested ==
    /\ Selected => \A k \in 0..2 : Survivors(k) \subseteq Survivors(k + 1)
    /\ Selected => (~sel.best.found <=> Survivors(3) = {})
    /\ (Selected /\ sel.pc = "answered" /\ sel.snapshots = <<>>) =>
          \A k \in 0..2 : \A r \in EdgeRows(sel.trade_type) :
              InLevel(sel.trade_type, LevelOf(sel.trade_type, k), r)
                  => InLevel(sel.trade_type, LevelOf(sel.trade_type, k + 1), r)

\* a chain with a row that passes level 0 and a row that passes level 3 only after level 0
C30_Witness ==
    /\ Selected
    /\ sel.best.found
    /\ Survivors(0) # {}
    /\ Survivors(0) # Survivors(3)

\* C23: a position evaluated by a pass run with dry_run = True keeps every field,
\* highest_price included, and nothing is sent for it, whatever its quote and even when
\* an exit condition is met: the exit processor is not called and the row is not saved.
C23_DryRunChangesNothing ==
    (Evaluated /\ tick.ev.dry_run) =>
        /\ tick.ev.post = tick.ev.pre
        /\ tick.rows[tick.ev.id] = tick.ev.pre
        /\ ~tick.ev.called
        /\ tick.ev.delivered = 0
        /\ ~tick.ev.raised

\* a dry run sees a quote above the stored peak that also reaches TP1
C23_Witness ==
    /\ Evaluated
    /\ tick.ev.dry_run
    /\ tick.ev.pre.highest_price = 150
    /\ tick.ev.q = 160
    /\ tick.ev.kind = "tp"
    /\ tick.rows[tick.ev.id].highest_price = 150

\* a step of a pass: the loop body ran for the position tracker t had loaded
PassStep == \E t \in Trackers : trk[t].pc = "quote" /\ trk'[t].pc = "idle"

\* C28: a step of a tracking pass that changes a field of the position or sends a
\* notification for it finds the position open and in auto mode at that moment; a
\* position switched to manual after the pass read its list is left as it is.
C28_PassActsOnOpenAutoOnly ==
    [][(PassStep /\ (db' # db \/ sentTp' # sentTp \/ sentSl' # sentSl))
           => (db.status = "open" /\ db.mode = "auto")]_vars

\* C29: in every state of the position: sl_hit implies status closed, exit_price is set
\* only when the status is closed, and a closed position has closed_at set; after any
\* sequence of tracking passes, manual exits, mode changes and close_position calls.
C29_ClosedFieldsConsistent ==
    /\ db.sl_hit => db.status = "closed"
    /\ db.exit_price # None => db.status = "closed"
    /\ db.status = "closed" => db.closed_at # None

\* a pass closed the position on the last TP level after a manual exit of level 1
C29_Witness ==
    /\ db.status = "closed"
    /\ ~db.sl_hit
    /\ db.tp_hit_level = 2
    /\ db.exit_price = 140
    /\ db.closed_at # None
    /\ requests = 1
    /\ last.caller = "tracker"

----------------------------------------------------------------------------
(* Successive passes over one position (specification RunSpec)               *)
(*                                                                          *)
(* The table holds one position, as the dashboard created it: open, auto,   *)
(* highest_price unset.  Passes follow one another with nothing in between; *)
(* each is run_auto_tracking_check from the queryset to the return.  The    *)
(* quote and the outcome of each pass and the highest quote seen so far are *)
(* kept beside the row.                                                     *)

\* bound of RunSpec: passes run one after the other
MaxRuns == 3

RunQuotes == {None, 85, 121, 160}
RunSlPrices == {None, 90}

\* no pass has run yet
NoPass ==
    [evaluated |-> FALSE, q |-> None, dry_run |-> FALSE, url |-> NoUrl, send_ok |-> TRUE,
     kind |-> "none", called |-> FALSE, ok |-> FALSE, delivered |-> 0,
     pre |-> NewRow("auto"), post |-> NewRow("auto"), seen_peak |-> None]

RunInit ==
    /\ \E sl \in RunSlPrices, trig \in PassTriggers :
          cfg = [entry_price |-> 100, tp_prices |-> <<120, 140>>, sl_price |-> sl,
                 trailing_stop_trigger |-> trig, trailing_stop_per |-> 15,
                 quantity |-> 1, multiplier |-> 100]
    /\ takeoff = [l \in Levels |-> None]
    /\ run = [pc |-> "idle", row |-> NewRow("auto"), started |-> 0,
              peak |-> None, prev |-> NoPass, ev |-> NoPass]
    /\ db = NewRow("auto")
    /\ trk = [t \in Trackers |-> IdleTracker]
    /\ req = IdleRequest
    /\ sentTp = [l \in Levels |-> 0]
    /\ sentSl = 0
    /\ clock = 1
    /\ passes = 0
    /\ requests = 0
    /\ last = NoCall
    /\ tick = NoTick
    /\ sel = NoSel
    /\ fetch = NoFetch
    /\ wrk = NoWorker

\* one pass: the worker's call, or the command with or without --dry-run; q is the quote
\* the provider gives for the position on this pass
run_pass ==
    /\ run.pc = "idle"
    /\ run.started < MaxRuns
    /\ \E t \in Trackers, dry \in BOOLEAN, q \in RunQuotes, ch \in PassChannels,
          send_ok \in BOOLEAN :
        /\ t = "worker" => ~dry
        /\ WebhookUrl(ch) = NoUrl => send_ok
        /\ LET row == run.row
               listed == row.status = "open" /\ row.mode = "auto"
               b == LoopBody(row, q, dry, "none", WebhookUrl(ch), send_ok, clock)
               ev == IF listed
                     THEN [evaluated |-> TRUE, q |-> q, dry_run |-> dry,
                           url |-> WebhookUrl(ch), send_ok |-> send_ok,
                           kind |-> b.kind, called |-> b.called, ok |-> b.ok,
                           delivered |-> b.delivered, pre |-> row, post |-> b.row,
                           seen_peak |-> run.peak]
                     ELSE [NoPass EXCEPT !.q = q, !.dry_run = dry, !.url = WebhookUrl(ch),
                                         !.send_ok = send_ok, !.pre = row, !.post = row,
                                         !.seen_peak = run.peak]
           IN  run' = [run EXCEPT !.row = ev.post,
                                  !.started = @ + 1,
                                  !.prev = run.ev,
                                  !.ev = ev,
                                  !.peak = IF listed /\ ~dry /\ q # None
                                           THEN (IF run.peak = None THEN q ELSE Max(run.peak, q))
                                           ELSE run.peak]
    /\ UNCHANGED <<db, takeoff, cfg, trk, req, sentTp, sentSl, clock, passes, requests, last, tick, sel, fetch, wrk>>

RunNext == run_pass

RunSpec == RunInit /\ [][RunNext]_vars

----------------------------------------------------------------------------
(* Properties of successive passes *)

\* C22: a pass run right after another one, with the same quote for the position, the
\* same dry_run flag and the same answer of the webhook, and nothing in between,
\* changes no field of the position and sends no notification.
C22_PassIdempotent ==
    (/\ run.pc = "idle"
     /\ run.started >= 2
     /\ run.ev.q = run.prev.q
     /\ run.ev.dry_run = run.prev.dry_run
     /\ run.ev.url = run.prev.url
     /\ run.ev.send_ok = run.prev.send_ok)
        => (run.ev.post = run.ev.pre /\ run.ev.delivered = 0)

\* C27: for a position created with no stored peak, trailing trigger "entry" and a
\* positive percent t: when the quotes of the earlier passes reached the peak P and the
\* quote of this pass is at or below P * (1 - t/100), this pass fires an SL-kind exit
\* (the webhook answering, or none being configured): the position is closed with sl_hit.
C27_TrailingStopFromFresh ==
    (/\ run.pc = "idle"
     /\ run.ev.evaluated
     /\ ~run.ev.dry_run
     /\ cfg.trailing_stop_trigger = "entry"
     /\ cfg.trailing_stop_per > 0
     /\ run.ev.q # None
     /\ run.ev.seen_peak # None
     /\ run.ev.q * 100 <= run.ev.seen_peak * (100 - cfg.trailing_stop_per)
     /\ run.ev.send_ok)
        => /\ run.ev.kind = "sl"
           /\ run.ev.called
           /\ run.ev.post.sl_hit
           /\ run.ev.post.status = "closed"

----------------------------------------------------------------------------
(* get_option_chain_snapshots (specification FetchSpec)                      *)
(*                                                                          *)
(* One call, from the argument check to the return.  Each iteration of the  *)
(* while loop sends one request through _get, which returns within its      *)
(* timeout; the provider's answer is free.  The loop is sequential code, so *)
(* an enabled step is eventually taken.                                     *)

\* bound of FetchSpec: the largest max_pages a caller passes
MaxPagesArg == 5

\* max_pages when the caller passes none, as get_best_option does
DefaultMaxPages == 5

\* default_limit, the page size asked for
default_limit == 250

\* what _get returns for one request: nothing (no key, HTTP or network error, empty body
\* or empty object), a body the loop cannot read (raises), or a page with n results of
\* which the date and strike filters keep all or none, and a next_url that is absent,
\* usable, or empty once the base URL is stripped
Responses ==
    {[kind |-> "none", n |-> 0, kept |-> FALSE, next_url |-> "absent"],
     [kind |-> "raises", n |-> 0, kept |-> FALSE, next_url |-> "absent"]}
    \cup [kind : {"page"}, n : {0, 1, default_limit}, kept : BOOLEAN,
          next_url : {"absent", "url", "empty"}]

FetchInit ==
    /\ \E valid \in BOOLEAN, dates_ok \in BOOLEAN, max_pages \in 0..MaxPagesArg :
          fetch = [pc |-> "call", valid |-> valid, dates_ok |-> dates_ok,
                   max_pages |-> max_pages, page_count |-> 0, requests |-> 0,
                   use_expiration_filter |-> TRUE, params |-> "filtered",
                   path |-> "first", out |-> 0, result_none |-> FALSE]
    /\ cfg = [entry_price |-> 100, tp_prices |-> <<120, 140>>, sl_price |-> None,
              trailing_stop_trigger |-> "", trailing_stop_per |-> 0,
              quantity |-> 1, multiplier |-> 100]
    /\ takeoff = [l \in Levels |-> None]
    /\ db = NewRow("manual")
    /\ trk = [t \in Trackers |-> IdleTracker]
    /\ req = IdleRequest
    /\ sentTp = [l \in Levels |-> 0]
    /\ sentSl = 0
    /\ clock = 1
    /\ passes = 0
    /\ requests = 0
    /\ last = NoCall
    /\ tick = NoTick
    /\ sel = NoSel
    /\ run = NoRun
    /\ wrk = NoWorker

\* the loop body not counting the request that is answered by the retry
fetch_iteration_retry_uncounted(f, resp) ==
    LET f1 == [f EXCEPT !.page_count = @ + 1, !.requests = @ + 1]
        f2 == [f1 EXCEPT !.out = @ + (IF resp.kept THEN resp.n ELSE 0)]
        returned == [f2 EXCEPT !.pc = "returned"]
    IN  IF resp.kind = "raises" THEN [f1 EXCEPT !.pc = "raised"]
        ELSE IF resp.kind = "none"
        THEN IF f.use_expiration_filter /\ f.dates_ok
             THEN [f1 EXCEPT !.page_count = f.page_count,
                             !.use_expiration_filter = FALSE,
                             !.params = "unfiltered", !.path = "first"]
             ELSE [f1 EXCEPT !.pc = "returned"]
        ELSE IF resp.next_url = "absent" \/ resp.n < default_limit THEN returned
        ELSE IF f2.page_count >= f.max_pages THEN returned
        ELSE IF resp.next_url = "url"
             THEN [f2 EXCEPT !.path = "next",
                             !.params = IF f.use_expiration_filter THEN @ ELSE "empty"]
        ELSE returned

\* one iteration of `while page_count < max_pages` with the provider answering resp
fetch_iteration(f, resp) ==
    LET f1 == [f EXCEPT !.page_count = @ + 1, !.requests = @ + 1]
        f2 == [f1 EXCEPT !.out = @ + (IF resp.kept THEN resp.n ELSE 0)]
        returned == [f2 EXCEPT !.pc = "returned"]
    IN  IF resp.kind = "raises" THEN [f1 EXCEPT !.pc = "raised"]
        ELSE IF resp.kind = "none"
        THEN IF f.use_expiration_filter /\ f.dates_ok
             THEN [f1 EXCEPT !.use_expiration_filter = FALSE,
                             !.params = "unfiltered", !.path = "first"]
             ELSE [f1 EXCEPT !.pc = "returned"]
        ELSE IF resp.next_url = "absent" \/ resp.n < default_limit THEN returned
        ELSE IF f2.page_count >= f.max_pages THEN returned
        ELSE IF resp.next_url = "url"
             THEN [f2 EXCEPT !.path = "next",
                             !.params = IF f.use_expiration_filter THEN @ ELSE "empty"]
        ELSE returned

\* the argument check: an empty underlying or a side other than call / put returns None
fetch_enter ==
    /\ fetch.pc = "call"
    /\ fetch' = IF fetch.valid THEN [fetch EXCEPT !.pc = "loop"]
                ELSE [fetch EXCEPT !.pc = "returned", !.result_none = TRUE]
    /\ UNCHANGED <<db, takeoff, cfg, trk, req, sentTp, sentSl, clock, passes, requests, last, tick, sel, run, wrk>>

\* the loop condition holds: one request and what follows from its answer
fetch_page ==
    /\ fetch.pc = "loop"
    /\ fetch.page_count < fetch.max_pages
    /\ \E resp \in Responses : fetch' = fetch_iteration(fetch, resp)
    /\ UNCHANGED <<db, takeoff, cfg, trk, req, sentTp, sentSl, clock, passes, requests, last, tick, sel, run, wrk>>

\* the loop condition fails: return out
fetch_exhausted ==
    /\ fetch.pc = "loop"
    /\ fetch.page_count >= fetch.max_pages
    /\ fetch' = [fetch EXCEPT !.pc = "returned"]
    /\ UNCHANGED <<db, takeoff, cfg, trk, req, sentTp, sentSl, clock, passes, requests, last, tick, sel, run, wrk>>

FetchNext ==
    \/ fetch_enter
    \/ fetch_page
    \/ fetch_exhausted

FetchSpec == FetchInit /\ [][FetchNext]_vars /\ WF_vars(FetchNext)

----------------------------------------------------------------------------
(* Properties of the chain fetch *)

\* the call is over: it returned or raised
FetchOver == fetch.pc \in {"returned", "raised"}

\* C24: get_option_chain_snapshots never has more than max_pages requests behind it,
\* the retry without expiration filters counted, and every call comes to an end,
\* whatever the provider answers to each request.
C24_FetchCappedAndTerminates ==
    /\ [](fetch.requests <= fetch.max_pages)
    /\ <>FetchOver

\* the default cap is used up: the first request fails, the retry and the pages after it
\* all come back full with a next_url
C24_Witness ==
    /\ fetch.pc = "returned"
    /\ fetch.max_pages = DefaultMaxPages
    /\ fetch.requests = DefaultMaxPages
    /\ ~fetch.use_expiration_filter
    /\ fetch.out = (DefaultMaxPages - 1) * default_limit

----------------------------------------------------------------------------
(* The background worker of one process (specification WorkerSpec)           *)
(*                                                                          *)
(* SignalsConfig.ready calls _maybe_start_auto_tracking_thread; the thread  *)
(* it starts runs _auto_tracking_worker.  A pass is a finite loop whose     *)
(* requests have timeouts, so it returns or raises; a sleep ends; the       *)
(* thread is scheduled.  Hence weak fairness on the worker's steps, and     *)
(* none on the calls of ready.                                              *)

\* bounds of WorkerSpec: calls of ready in the process, and passes counted (the count
\* stays at the bound, the loop goes on)
MaxReady == 2
MaxCounted == 3

\* AUTO_TRACKING_BACKGROUND_INTERVAL_SECONDS
Intervals == {0 - 5, 0, 30, 60}

Min(a, b) == IF a < b THEN a ELSE b

WorkerInit ==
    /\ \E interval \in Intervals, runserver \in BOOLEAN, run_main \in BOOLEAN :
          wrk = [interval |-> interval, runserver |-> runserver, run_main |-> run_main,
                 ready_calls |-> 0, thread_started |-> FALSE, threads |-> 0,
                 w |-> "none", outcome |-> "none", count |-> 0]
    /\ cfg = [entry_price |-> 100, tp_prices |-> <<120, 140>>, sl_price |-> None,
              trailing_stop_trigger |-> "", trailing_stop_per |-> 0,
              quantity |-> 1, multiplier |-> 100]
    /\ takeoff = [l \in Levels |-> None]
    /\ db = NewRow("auto")
    /\ trk = [t \in Trackers |-> IdleTracker]
    /\ req = IdleRequest
    /\ sentTp = [l \in Levels |-> 0]
    /\ sentSl = 0
    /\ clock = 1
    /\ passes = 0
    /\ requests = 0
    /\ last = NoCall
    /\ tick = NoTick
    /\ sel = NoSel
    /\ run = NoRun
    /\ fetch = NoFetch

\* _maybe_start_auto_tracking_thread on the process state p
maybe_start_auto_tracking_thread(p) ==
    IF p.thread_started THEN p
    ELSE IF p.interval <= 0 THEN p
    ELSE IF p.runserver /\ ~p.run_main THEN p
    ELSE [p EXCEPT !.thread_started = TRUE, !.threads = @ + 1, !.w = "entry"]

\* the worker's loop leaving the thread when the pass raised
auto_tracking_worker_after_pass_reraising(p, outcome) ==
    [p EXCEPT !.w = IF outcome = "raised" THEN "exited" ELSE "sleeping",
              !.outcome = outcome]

\* the worker's loop after run_auto_tracking_check returned or raised: the exception is
\* logged, the connection closed, and the thread sleeps for the interval
auto_tracking_worker_after_pass(p, outcome) ==
    [p EXCEPT !.w = "sleeping", !.outcome = outcome]

\* SignalsConfig.ready
ready ==
    /\ wrk.ready_calls < MaxReady
    /\ wrk' = [maybe_start_auto_tracking_thread(wrk) EXCEPT !.ready_calls = @ + 1]
    /\ UNCHANGED <<db, takeoff, cfg, trk, req, sentTp, sentSl, clock, passes, requests, last, tick, sel, run, fetch>>

\* _auto_tracking_worker: the interval check, then the start of time.sleep(10)
auto_tracking_worker_enter ==
    /\ wrk.w = "entry"
    /\ wrk' = [wrk EXCEPT !.w = IF wrk.interval <= 0 THEN "exited" ELSE "delay"]
    /\ UNCHANGED <<db, takeoff, cfg, trk, req, sentTp, sentSl, clock, passes, requests, last, tick, sel, run, fetch>>

\* a sleep ends (the first delay or the interval) and the pass is called
auto_tracking_worker_pass_begin ==
    /\ wrk.w \in {"delay", "sleeping"}
    /\ wrk' = [wrk EXCEPT !.w = "running", !.count = Min(@ + 1, MaxCounted)]
    /\ UNCHANGED <<db, takeoff, cfg, trk, req, sentTp, sentSl, clock, passes, requests, last, tick, sel, run, fetch>>

\* run_auto_tracking_check returns or raises
auto_tracking_worker_pass_end ==
    /\ wrk.w = "running"
    /\ \E outcome \in {"returned", "raised"} :
          wrk' = auto_tracking_worker_after_pass(wrk, outcome)
    /\ UNCHANGED <<db, takeoff, cfg, trk, req, sentTp, sentSl, clock, passes, requests, last, tick, sel, run, fetch>>

WorkerStep ==
    \/ auto_tracking_worker_enter
    \/ auto_tracking_worker_pass_begin
    \/ auto_tracking_worker_pass_end

WorkerNext ==
    \/ ready
    \/ auto_tracking_worker_enter
    \/ auto_tracking_worker_pass_begin
    \/ auto_tracking_worker_pass_end

WorkerSpec == WorkerInit /\ [][WorkerNext]_vars /\ WF_vars(WorkerStep)

----------------------------------------------------------------------------
(* Properties of the background worker *)

\* C26: at most one worker thread is started in a process; with an interval <= 0 none is
\* started and no pass runs from the worker; with a positive interval a started worker
\* runs a first pass, and after every pass, one that raised included, it starts another
\* pass, so that passes recur forever.
C26_WorkerKeepsScheduling ==
    /\ [](wrk.threads <= 1)
    /\ [](wrk.interval <= 0 => (wrk.threads = 0 /\ wrk.w = "none" /\ wrk.count = 0))
    /\ [](wrk.threads = 1 => <>(wrk.w = "running"))
    /\ [](wrk.w = "sleeping" => <>(wrk.w = "running"))
    /\ []((wrk.w = "sleeping" /\ wrk.outcome = "raised") => <>(wrk.w = "running"))

\* ready was called twice, one thread exists, and a pass runs after a pass that raised
C26_Witness ==
    /\ wrk.ready_calls = 2
    /\ wrk.threads = 1
    /\ wrk.w = "running"
    /\ wrk.outcome = "raised"
    /\ wrk.count >= 2

====
